---------------------------- MODULE Spec2Model ----------------------------
(***************************************************************************)
(* A model of the DBGH leveled runtime assertions (DBGHAssert.h).          *)
(*                                                                         *)
(* The call-site macros IMPL_DBGH_ASSERT and IMPL_DBGH_ASSERT_DEBUG are    *)
(* modelled from the header.  The classes they call (CAssertConfig,        *)
(* CAssertHandler, CHandlerExecutor, CAssertException) are not part of the *)
(* header; their behaviour follows the design description and the header's *)
(* documentation comments.                                                 *)
(***************************************************************************)
EXTENDS Naturals, Sequences, FiniteSets

(***************************************************************************)
(* Bounds of the model.                                                    *)
(***************************************************************************)
\* how many times the interactive menu is shown for one failing check
MaxPrompts == 2

(***************************************************************************)
(* Levels, call sites, executors, messages.                                *)
(***************************************************************************)
\* dbgh::EAssertLevel
Levels == {"Debug", "Warning", "Error", "Fatal"}

\* The textual call sites of the program under analysis.  dA and dB are two
\* ASSERT_DEBUG invocations with the same expression and message.
Sites == {"dA", "dB", "w", "e", "f"}

\* The macro written at each call site.
SiteMacro(s) ==
    CASE s \in {"dA", "dB"} -> "ASSERT_DEBUG"
      [] s = "w" -> "ASSERT_WARNING"
      [] s = "e" -> "ASSERT_ERROR"
      [] s = "f" -> "ASSERT_FATAL"

\* The executors a program can install: the library default and a
\* user-written subclass of dbgh::CHandlerExecutor.
Executors == {"Default", "Spy"}

\* Format strings (split in pieces, "{}" a replacement field) and arguments.
Templates == { <<"bad value ", "{}">> }
Args == {"5", "7"}

\* std::format(fmt, arg): every replacement field is replaced by the argument.
Format(t, a) == [i \in DOMAIN t |-> IF t[i] = "{}" THEN a ELSE t[i]]

\* "no message was formatted"
NoMessage == << >>

\* std::uncaught_exceptions() at the moment of a failure: the checks of the
\* analysed program run while no exception is in flight.
UncaughtCounts == {0}

(***************************************************************************)
(* Exceptions.                                                             *)
(***************************************************************************)
NoExc == [type |-> "none", msg |-> NoMessage, extra |-> "none"]

\* dbgh::CAssertException carries exactly the formatted message.
AssertException(m) == [type |-> "CAssertException", msg |-> m, extra |-> "none"]

\* A user type derived from dbgh::CAssertException, with a payload of its own.
DerivedException(m) == [type |-> "CDerivedAssertException", msg |-> m, extra |-> "code42"]

\* An exception type unrelated to dbgh::CAssertException.
UnrelatedException == [type |-> "std::runtime_error", msg |-> <<"io">>, extra |-> "none"]

\* dbgh::impl::CAssertHandler::SStartDebuggingException
StartDebuggingException == [type |-> "SStartDebuggingException", msg |-> NoMessage, extra |-> "none"]

\* Does `catch (const dbgh::CAssertException& e)` match?
IsAssertException(x) == x.type \in {"CAssertException", "CDerivedAssertException"}


(***************************************************************************)
(* The macros of DBGHAssert.h.                                             *)
(***************************************************************************)
\* Expansion with ASSERT_WARNING defined by a copy of the ASSERT_ERROR line.
ExpansionWarningAsError(macro, debug) ==
    IF macro = "ASSERT_DEBUG" \/ debug
    THEN [impl |-> "IMPL_DBGH_ASSERT_DEBUG", level |-> "Debug"]
    ELSE [impl |-> "IMPL_DBGH_ASSERT",
          level |-> CASE macro = "ASSERT_WARNING" -> "Error"
                      [] macro = "ASSERT_ERROR" -> "Error"
                      [] macro = "ASSERT_FATAL" -> "Fatal"]

\* Expansion without the `#ifndef DEBUG` switch: the release definitions always.
ExpansionNoDebugSwitch(macro, debug) ==
    IF macro = "ASSERT_DEBUG"
    THEN [impl |-> "IMPL_DBGH_ASSERT_DEBUG", level |-> "Debug"]
    ELSE [impl |-> "IMPL_DBGH_ASSERT",
          level |-> CASE macro = "ASSERT_WARNING" -> "Warning"
                      [] macro = "ASSERT_ERROR" -> "Error"
                      [] macro = "ASSERT_FATAL" -> "Fatal"]

\* Expansion with ASSERT_FATAL defined by a copy of the ASSERT_WARNING line.
ExpansionFatalAsWarning(macro, debug) ==
    IF macro = "ASSERT_DEBUG" \/ debug
    THEN [impl |-> "IMPL_DBGH_ASSERT_DEBUG", level |-> "Debug"]
    ELSE [impl |-> "IMPL_DBGH_ASSERT",
          level |-> CASE macro = "ASSERT_WARNING" -> "Warning"
                      [] macro = "ASSERT_ERROR" -> "Error"
                      [] macro = "ASSERT_FATAL" -> "Warning"]

\* Expansion with ASSERT_FATAL defined by a copy of the ASSERT_ERROR line.
ExpansionFatalAsError(macro, debug) ==
    IF macro = "ASSERT_DEBUG" \/ debug
    THEN [impl |-> "IMPL_DBGH_ASSERT_DEBUG", level |-> "Debug"]
    ELSE [impl |-> "IMPL_DBGH_ASSERT",
          level |-> CASE macro = "ASSERT_WARNING" -> "Warning"
                      [] macro = "ASSERT_ERROR" -> "Error"
                      [] macro = "ASSERT_FATAL" -> "Error"]

\* What a macro name expands to: ASSERT_DEBUG always, and under -DDEBUG every
\* macro, is IMPL_DBGH_ASSERT_DEBUG at level Debug; otherwise ASSERT_WARNING,
\* ASSERT_ERROR and ASSERT_FATAL are IMPL_DBGH_ASSERT at their own level.
Expansion(macro, debug) ==
    IF macro = "ASSERT_DEBUG" \/ debug
    THEN [impl |-> "IMPL_DBGH_ASSERT_DEBUG", level |-> "Debug"]
    ELSE [impl |-> "IMPL_DBGH_ASSERT",
          level |-> CASE macro = "ASSERT_WARNING" -> "Warning"
                      [] macro = "ASSERT_ERROR" -> "Error"
                      [] macro = "ASSERT_FATAL" -> "Fatal"]

\* AssertCondition that does not ask the registry: the level counts as active.
AssertConditionUngated(isActive, exprVal) ==
    [steps |-> <<"gate", "expr">>, fires |-> ~exprVal]

\* AssertCondition with the operands of && swapped: the expression first.
AssertConditionEager(isActive, exprVal) ==
    IF exprVal THEN [steps |-> <<"expr">>, fires |-> FALSE]
    ELSE [steps |-> <<"expr", "gate">>, fires |-> isActive]

\* The condition of IMPL_DBGH_ASSERT,
\*     IsActiveAssert(_level_) && ! bool(_expression_)
\* evaluated left to right with short-circuiting: `steps` lists what was
\* evaluated, in order; `fires` tells whether the body runs.
AssertCondition(isActive, exprVal) ==
    IF ~isActive THEN [steps |-> <<"gate">>, fires |-> FALSE]
    ELSE [steps |-> <<"gate", "expr">>, fires |-> ~exprVal]

\* DebugAssertCondition with the latch as the last operand of &&.
DebugAssertConditionLatchLast(ignored, isActive, exprVal) ==
    IF ~isActive THEN [steps |-> <<"gate">>, fires |-> FALSE]
    ELSE IF exprVal THEN [steps |-> <<"gate", "expr">>, fires |-> FALSE]
    ELSE [steps |-> <<"gate", "expr", "latch">>, fires |-> ~ignored]

\* DebugAssertCondition without the negation of the expression.
DebugAssertConditionNoNegation(ignored, isActive, exprVal) ==
    IF ignored THEN [steps |-> <<"latch">>, fires |-> FALSE]
    ELSE IF ~isActive THEN [steps |-> <<"latch", "gate">>, fires |-> FALSE]
    ELSE [steps |-> <<"latch", "gate", "expr">>, fires |-> exprVal]

\* DebugAssertCondition without the test of __ignore.
DebugAssertConditionNoLatch(ignored, isActive, exprVal) ==
    IF ~isActive THEN [steps |-> <<"gate">>, fires |-> FALSE]
    ELSE [steps |-> <<"gate", "expr">>, fires |-> ~exprVal]

\* The condition of IMPL_DBGH_ASSERT_DEBUG,
\*     (! __ignore) && IsActiveAssert(_level_) && (! bool(_expression_))
DebugAssertCondition(ignored, isActive, exprVal) ==
    IF ignored THEN [steps |-> <<"latch">>, fires |-> FALSE]
    ELSE IF ~isActive THEN [steps |-> <<"latch", "gate">>, fires |-> FALSE]
    ELSE [steps |-> <<"latch", "gate", "expr">>, fires |-> ~exprVal]

\* LatchOnEntry for `bool __ignore { false };` without `static`.
LatchOnEntryAutomatic(stored) == FALSE

\* `static bool __ignore { false };` is initialised once, before the first
\* execution of the block: entering the block again finds the stored value.
LatchOnEntry(stored) == stored

\* IgnoreRef for one `__ignore` at namespace scope, shared by all sites.
IgnoreRefShared(s) == "dA"

\* Every expansion of IMPL_DBGH_ASSERT_DEBUG declares a `__ignore` of its
\* own and hands that one to HandleAssert: the latch used at site s.
IgnoreRef(s) == s

\* Rethrow that throws a fresh, empty exception.
RethrowEmpty(x) == AssertException(NoMessage)

\* `throw e;` with e declared `const dbgh::CAssertException&`: the exception
\* object thrown is copy-initialised from the static type of e, so the caller
\* receives a CAssertException holding e's message, whatever e's dynamic type.
Rethrow(x) == AssertException(x.msg)

\* The handlers of the try block of IMPL_DBGH_ASSERT applied to an exception
\* leaving HandleAssert: `exc` is what the caller of the macro receives.
AssertCatch(x) ==
    IF IsAssertException(x)
    THEN [caught |-> TRUE, exc |-> Rethrow(x), events |-> <<"catch", "rethrow">>]
    ELSE [caught |-> FALSE, exc |-> x, events |-> << >>]

\* DebugCatch without the clause for SStartDebuggingException.
DebugCatchNoBreakClause(x) ==
    IF IsAssertException(x)
    THEN [caught |-> TRUE, trap |-> FALSE, exc |-> Rethrow(x), events |-> <<"catch", "rethrow">>]
    ELSE [caught |-> FALSE, trap |-> FALSE, exc |-> x, events |-> << >>]

\* DebugCatch whose clause for SStartDebuggingException is empty.
DebugCatchNoTrap(x) ==
    IF x.type = "SStartDebuggingException"
    THEN [caught |-> TRUE, trap |-> FALSE, exc |-> NoExc, events |-> <<"catch">>]
    ELSE IF IsAssertException(x)
    THEN [caught |-> TRUE, trap |-> FALSE, exc |-> Rethrow(x), events |-> <<"catch", "rethrow">>]
    ELSE [caught |-> FALSE, trap |-> FALSE, exc |-> x, events |-> << >>]

\* The handlers of the try block of IMPL_DBGH_ASSERT_DEBUG: the first clause
\* catches SStartDebuggingException and runs START_DEBUGGING, the second
\* rethrows a CAssertException, anything else passes through.
\* `trap` tells whether the breakpoint instruction runs, `exc` what leaves
\* the macro as an exception (NoExc when nothing does).
DebugCatch(x) ==
    IF x.type = "SStartDebuggingException"
    THEN [caught |-> TRUE, trap |-> TRUE, exc |-> NoExc, events |-> <<"catch", "trap">>]
    ELSE IF IsAssertException(x)
    THEN [caught |-> TRUE, trap |-> FALSE, exc |-> Rethrow(x), events |-> <<"catch", "rethrow">>]
    ELSE [caught |-> FALSE, trap |-> FALSE, exc |-> x, events |-> << >>]

\* START_DEBUGGING (__debugbreak / int $0x03): with a debugger attached the
\* program stops and is resumed after the instruction; without one the
\* behaviour is undefined ("otherwise behavior undefined"): the trap may be
\* handled and execution resumed, or the process is killed by the trap.
StartDebuggingOutcomes(attached) ==
    IF attached THEN {"resumed"} ELSE {"resumed", "killed"}

(***************************************************************************)
(* The handler executor (dbgh::CHandlerExecutor) and the dispatch to it    *)
(* (dbgh::impl::CAssertHandler::HandleAssert<level>).                      *)
(***************************************************************************)
\* The executor operation HandleAssert<level> dispatches to.
OperationOf(level) ==
    CASE level = "Debug" -> "HandleInteractive"
      [] level = "Warning" -> "HandleWarning"
      [] level = "Error" -> "HandleError"
      [] level = "Fatal" -> "HandleFatal"

\* HandleAssertCall through an executor looked up once and kept.
HandleAssertCallCached(installed, level) ==
    << [executor |-> "Default", op |-> OperationOf(level)] >>

\* The call `dbgh::impl::CAssertHandler::HandleAssert<_level_>(...)` of the
\* macros: it is given no executor, so the operation runs on the executor the
\* registry holds when the call is made.
HandleAssertCall(installed, level) ==
    << [executor |-> installed, op |-> OperationOf(level)] >>

LevelTag(level) ==
    CASE level = "Debug" -> "[DEBUG]"
      [] level = "Warning" -> "[WARNING]"
      [] level = "Error" -> "[ERROR]"
      [] level = "Fatal" -> "[FATAL]"

\* The failure context built for one failing check.
Context(level, site, message, uncaught) ==
    [level |-> level, site |-> site, message |-> message, uncaught |-> uncaught]

\* The line the default executor writes to std::cerr:
\*   [<LEVEL>] Uncaught: <N>, File/Function/Line/Expression (the site), Message
Report(ctx) ==
    [tag |-> LevelTag(ctx.level), uncaught |-> ctx.uncaught,
     site |-> ctx.site, message |-> ctx.message]

\* What an exception-throwing user executor may throw.
Throwables(ctx) ==
    {AssertException(ctx.message), DerivedException(ctx.message), UnrelatedException}

\* The outcomes of the Warning, Error and Fatal operations of executor e:
\* the default executor reports, then returns (Warning), throws the assertion
\* exception with the formatted message (Error) or terminates (Fatal); an
\* operation overridden by the user returns normally or throws.
HandlerOutcomes(e, ctx) ==
    IF e = "Default"
    THEN { CASE ctx.level = "Warning" ->
                  [reports |-> <<Report(ctx)>>, result |-> "returned", exc |-> NoExc,
                   events |-> <<"report", "return">>]
             [] ctx.level = "Error" ->
                  [reports |-> <<Report(ctx)>>, result |-> "threw",
                   exc |-> AssertException(ctx.message),
                   events |-> <<"report", "throw">>]
             [] ctx.level = "Fatal" ->
                  [reports |-> <<Report(ctx)>>, result |-> "terminated", exc |-> NoExc,
                   events |-> <<"report", "terminate">>] }
    ELSE { [reports |-> << >>, result |-> "returned", exc |-> NoExc, events |-> <<"return">>] }
         \cup { [reports |-> << >>, result |-> "threw", exc |-> x, events |-> <<"throw">>] :
                  x \in Throwables(ctx) }

\* The interactive command alphabet and what is read from std::cin.
Commands == {"I", "F", "D", "T", "B"}
Inputs == {"I", "i", "F", "f", "D", "d", "T", "t", "B", "b", "x", ""}

\* ToUpper that leaves every character as it is.
ToUpperIdentity(ch) == ch

\* std::toupper on the one character read; "" is a failed read.
ToUpper(ch) ==
    CASE ch = "i" -> "I" [] ch = "f" -> "F" [] ch = "d" -> "D"
      [] ch = "t" -> "T" [] ch = "b" -> "B" [] OTHER -> ch

Resolutions == {"Continue", "Suppressed", "Break", "Escalate", "Abort"}

\* ParseCommand whose default branch ignores the failure once.
ParseCommandDefaultContinue(ch) ==
    LET c == ToUpper(ch) IN
    CASE c = "I" -> "Continue"
      [] c = "F" -> "Suppressed"
      [] c = "D" -> "Break"
      [] c = "T" -> "Escalate"
      [] c = "B" -> "Abort"
      [] OTHER -> "Continue"

\* The resolution a command stands for; "none" means the menu is shown again.
ParseCommand(ch) ==
    LET c == ToUpper(ch) IN
    CASE c = "I" -> "Continue"
      [] c = "F" -> "Suppressed"
      [] c = "D" -> "Break"
      [] c = "T" -> "Escalate"
      [] c = "B" -> "Abort"
      [] OTHER -> "none"

\* How HandleAssert<Debug> leaves once the interactive operation has resolved
\* to r: it returns (setting the site's latch through the reference it was
\* given on Suppressed), throws SStartDebuggingException (Break), throws the
\* assertion exception with the formatted message (Escalate) or terminates.
InteractiveEffect(r, message) ==
    CASE r = "Continue" ->
           [setLatch |-> FALSE, result |-> "returned", exc |-> NoExc, events |-> <<"return">>]
      [] r = "Suppressed" ->
           [setLatch |-> TRUE, result |-> "returned", exc |-> NoExc,
            events |-> <<"setlatch", "return">>]
      [] r = "Break" ->
           [setLatch |-> FALSE, result |-> "threw", exc |-> StartDebuggingException,
            events |-> <<"throw">>]
      [] r = "Escalate" ->
           [setLatch |-> FALSE, result |-> "threw", exc |-> AssertException(message),
            events |-> <<"throw">>]
      [] r = "Abort" ->
           [setLatch |-> FALSE, result |-> "terminated", exc |-> NoExc,
            events |-> <<"terminate">>]

(***************************************************************************)
(* The state.                                                              *)
(***************************************************************************)
VARIABLES
    debugBuild,   \* is the translation unit compiled with -DDEBUG
    active,       \* CAssertConfig: level -> enabled
    executor,     \* CAssertConfig: the installed executor
    ignore,       \* the `static bool __ignore` of every call site
    pc,           \* "idle", "prompting" (blocked in the menu) or "terminated"
    cur,          \* the check being executed, or the last one executed
    stdin         \* the next token on std::cin while the menu waits for it

vars == <<debugBuild, active, executor, ignore, pc, cur, stdin>>

\* The record of a check that has just entered the macro at site s with a
\* guarded expression of value v.
\*   gateActive, latchBefore  the level's state and the site's latch on entry
\*   evaluated, fired         was the expression evaluated, did the body run
\*   message                  the formatted message (NoMessage: none formatted)
\*   calls, reports           executor operations invoked, lines on std::cerr
\*   prompts                  menus shown
\*   thrown, caught           the exception leaving HandleAssert, and whether a
\*                            catch clause of the macro caught it
\*   exc, outcome             what the caller of the macro observes
\*   events                   what happened, in order
Entered(s, v) ==
    LET x == Expansion(SiteMacro(s), debugBuild) IN
    [site |-> s, impl |-> x.impl, level |-> x.level, exprVal |-> v,
     gateActive |-> active[x.level], latchBefore |-> ignore[IgnoreRef(s)],
     evaluated |-> FALSE, fired |-> FALSE, message |-> NoMessage,
     calls |-> << >>, reports |-> << >>, prompts |-> 0,
     resolution |-> "none", thrown |-> NoExc, caught |-> FALSE, breakpoints |-> 0,
     debugger |-> "none", exc |-> NoExc, outcome |-> "returned", events |-> << >>]

NoCheck ==
    [site |-> "none", impl |-> "none", level |-> "none", exprVal |-> TRUE,
     gateActive |-> FALSE, latchBefore |-> FALSE,
     evaluated |-> FALSE, fired |-> FALSE, message |-> NoMessage,
     calls |-> << >>, reports |-> << >>, prompts |-> 0,
     resolution |-> "none", thrown |-> NoExc, caught |-> FALSE, breakpoints |-> 0,
     debugger |-> "none", exc |-> NoExc, outcome |-> "none", events |-> << >>]

\* Is e among the entries of sequence q?
Has(q, e) == \E i \in DOMAIN q : q[i] = e

\* Registry defaults: Warning and Error enabled, Fatal disabled, Debug
\* following the debug/release switch; the default executor installed; every
\* `static bool __ignore { false }`.
Init ==
    /\ debugBuild \in BOOLEAN
    /\ active = [l \in Levels |-> CASE l = "Debug" -> debugBuild
                                    [] l \in {"Warning", "Error"} -> TRUE
                                    [] l = "Fatal" -> FALSE]
    /\ executor = "Default"
    /\ ignore = [s \in Sites |-> FALSE]
    /\ pc = "idle"
    /\ cur = NoCheck
    /\ stdin = "none"

(***************************************************************************)
(* The registry operations.                                                *)
(***************************************************************************)
\* The enabled-level flags after EnableAsserts(l) and after DisableAsserts(l).
EnableAsserts(reg, l) == [reg EXCEPT ![l] = TRUE]
DisableAsserts(reg, l) == [reg EXCEPT ![l] = FALSE]

\* CAssertConfig::EnableAsserts(level)
Enable(l) ==
    /\ pc = "idle"
    /\ active' = EnableAsserts(active, l)
    /\ UNCHANGED <<debugBuild, executor, ignore, pc, cur, stdin>>

\* CAssertConfig::DisableAsserts(level)
Disable(l) ==
    /\ pc = "idle"
    /\ active' = DisableAsserts(active, l)
    /\ UNCHANGED <<debugBuild, executor, ignore, pc, cur, stdin>>

\* Install that stores whatever it is given.
InstallUnchecked(old, new) == new

\* The executor the registry holds after SetExecutor(new) when it held old:
\* the new one replaces the old one, which is released; an empty argument
\* ("null", a std::unique_ptr holding nothing) leaves the slot as it was.
Install(old, new) == IF new = "null" THEN old ELSE new

\* CAssertConfig::SetExecutor(std::make_unique<E>()), or SetExecutor(nullptr)
SetExecutor(e) ==
    /\ pc = "idle"
    /\ executor' = Install(executor, e)
    /\ UNCHANGED <<debugBuild, active, ignore, pc, cur, stdin>>

(***************************************************************************)
(* The checks.                                                             *)
(***************************************************************************)
\* The call sites whose macro expands to impl in this build.
SitesOf(impl) == {s \in Sites : Expansion(SiteMacro(s), debugBuild).impl = impl}

\* One execution of IMPL_DBGH_ASSERT at site s whose guarded expression has
\* value v.  When the body runs, the message is std::format(t, a) and u
\* exceptions are in flight.
IMPL_DBGH_ASSERT(s, v) ==
    LET c0 == Entered(s, v)
        cond == AssertCondition(active[c0.level], v)
        c1 == [c0 EXCEPT !.evaluated = Has(cond.steps, "expr"), !.events = cond.steps]
    IN
    /\ pc = "idle"
    /\ IF ~cond.fires
       THEN /\ cur' = c1
            /\ pc' = pc
       ELSE \E t \in Templates, a \in Args, u \in UncaughtCounts :
              LET ctx == Context(c0.level, s, Format(t, a), u) IN
              \E o \in HandlerOutcomes(executor, ctx) :
                LET h == IF o.result = "threw" THEN AssertCatch(o.exc)
                         ELSE [caught |-> FALSE, exc |-> NoExc, events |-> << >>]
                    outcome == IF o.result = "threw" /\ h.exc = NoExc THEN "returned"
                               ELSE o.result
                IN
                /\ cur' = [c1 EXCEPT !.fired = TRUE,
                                     !.message = ctx.message,
                                     !.calls = HandleAssertCall(executor, c0.level),
                                     !.reports = o.reports,
                                     !.thrown = o.exc,
                                     !.caught = h.caught,
                                     !.exc = h.exc,
                                     !.outcome = outcome,
                                     !.events = cond.steps \o <<"format", "call">>
                                                \o o.events \o h.events]
                /\ pc' = IF outcome = "terminated" THEN "terminated" ELSE "idle"
    /\ UNCHANGED <<debugBuild, active, executor, ignore, stdin>>

\* The rest of IMPL_DBGH_ASSERT_DEBUG once the interactive operation has
\* resolved check c to r: HandleAssert leaves as InteractiveEffect says, the
\* catch clauses of the macro translate it, START_DEBUGGING runs on Break.
\* `lat` is the latch state the macro was entered with.
Resolve(c, r, lat) ==
    LET eff == InteractiveEffect(r, c.message)
        h == IF eff.result = "threw" THEN DebugCatch(eff.exc)
             ELSE [caught |-> FALSE, trap |-> FALSE, exc |-> NoExc, events |-> << >>]
    IN
    \E attached \in IF h.trap THEN BOOLEAN ELSE {FALSE} :
      \E stop \in IF h.trap THEN StartDebuggingOutcomes(attached) ELSE {"resumed"} :
        LET outcome == IF eff.result = "terminated" \/ stop = "killed" THEN "terminated"
                       ELSE IF h.exc # NoExc THEN "threw"
                       ELSE "returned"
        IN
        /\ cur' = [c EXCEPT !.resolution = r,
                            !.thrown = eff.exc,
                            !.caught = h.caught,
                            !.breakpoints = IF h.trap THEN 1 ELSE 0,
                            !.debugger = IF ~h.trap THEN "none"
                                         ELSE IF attached THEN "attached" ELSE "absent",
                            !.exc = h.exc,
                            !.outcome = outcome,
                            !.events = c.events \o eff.events \o h.events
                                       \o (IF stop = "killed" THEN <<"killed">> ELSE << >>)]
        /\ ignore' = IF eff.setLatch THEN [lat EXCEPT ![IgnoreRef(c.site)] = TRUE] ELSE lat
        /\ pc' = IF outcome = "terminated" THEN "terminated" ELSE "idle"

\* One execution of IMPL_DBGH_ASSERT_DEBUG at site s, up to the point where
\* the default executor blocks in the menu; a user executor's interactive
\* operation resolves without reading input.
IMPL_DBGH_ASSERT_DEBUG(s, v) ==
    LET c0 == Entered(s, v)
        lat == [ignore EXCEPT ![IgnoreRef(s)] = LatchOnEntry(@)]
        cond == DebugAssertCondition(lat[IgnoreRef(s)], active[c0.level], v)
        c1 == [c0 EXCEPT !.evaluated = Has(cond.steps, "expr"), !.events = cond.steps]
    IN
    /\ pc = "idle"
    /\ IF ~cond.fires
       THEN /\ cur' = c1
            /\ ignore' = lat
            /\ pc' = pc
            /\ stdin' = stdin
       ELSE \E t \in Templates, a \in Args, u \in UncaughtCounts :
              LET ctx == Context(c0.level, s, Format(t, a), u)
                  c2 == [c1 EXCEPT !.fired = TRUE,
                                   !.message = ctx.message,
                                   !.calls = HandleAssertCall(executor, c0.level),
                                   !.outcome = "pending",
                                   !.events = cond.steps \o <<"format", "call">>]
              IN
              IF executor = "Default"
              THEN /\ cur' = [c2 EXCEPT !.reports = <<Report(ctx)>>, !.prompts = 1,
                                        !.events = @ \o <<"report", "prompt">>]
                   /\ pc' = "prompting"
                   /\ ignore' = lat
                   /\ stdin' \in Inputs
              ELSE /\ \E r \in Resolutions : Resolve(c2, r, lat)
                   /\ stdin' = stdin
    /\ UNCHANGED <<debugBuild, active, executor>>

\* The default interactive operation reads one command from std::cin: one of
\* the five commands resolves the check, anything else shows the menu again
\* and waits for the next token.
ReadCommand ==
    /\ pc = "prompting"
    /\ IF ParseCommand(stdin) = "none"
       THEN /\ cur.prompts < MaxPrompts
            /\ cur' = [cur EXCEPT !.prompts = @ + 1, !.events = @ \o <<"prompt">>]
            /\ stdin' \in Inputs
            /\ UNCHANGED <<ignore, pc>>
       ELSE /\ Resolve(cur, ParseCommand(stdin), ignore)
            /\ stdin' = "none"
    /\ UNCHANGED <<debugBuild, active, executor>>

Next ==
    \/ \E l \in Levels : Enable(l)
    \/ \E l \in Levels : Disable(l)
    \/ \E e \in Executors \cup {"null"} : SetExecutor(e)
    \/ \E s \in SitesOf("IMPL_DBGH_ASSERT"), v \in BOOLEAN : IMPL_DBGH_ASSERT(s, v)
    \/ \E s \in SitesOf("IMPL_DBGH_ASSERT_DEBUG"), v \in BOOLEAN : IMPL_DBGH_ASSERT_DEBUG(s, v)
    \/ ReadCommand

Spec == Init /\ [][Next]_vars

(***************************************************************************)
(* Properties.                                                             *)
(*                                                                         *)
(* A step executes (the first part of) a check exactly when it starts in   *)
(* "idle" and changes cur: the registry operations leave cur alone and     *)
(* ReadCommand starts in "prompting".  A check that leaves every variable  *)
(* as it was, cur included, is a stuttering step and changes nothing.      *)
(***************************************************************************)
CheckStep == pc = "idle" /\ cur' # cur

\* Does e occur before f in sequence q?
Before(q, e, f) == \E i, j \in DOMAIN q : i < j /\ q[i] = e /\ q[j] = f

\* Check c did nothing the program can observe.
IsNoOp(c) ==
    /\ ~c.evaluated /\ ~Has(c.events, "expr")
    /\ c.message = NoMessage /\ ~Has(c.events, "format")
    /\ c.calls = << >> /\ c.reports = << >> /\ c.prompts = 0
    /\ c.thrown = NoExc /\ c.exc = NoExc /\ c.breakpoints = 0
    /\ c.outcome = "returned"

\* C1: a check at a level that is disabled is a complete no-op, whatever the
\* value of the guarded expression: the expression is not evaluated, no
\* message is formatted, no executor operation is invoked, nothing is
\* reported, and neither the registry nor any latch changes.
C1_DisabledCheckIsNoOp ==
    [][ (CheckStep /\ ~active[cur'.level])
          => /\ IsNoOp(cur')
             /\ pc' = "idle"
             /\ UNCHANGED <<active, executor, ignore>> ]_vars

\* A failing Error check was executed while Error was disabled.
C1_Witness ==
    /\ cur.impl = "IMPL_DBGH_ASSERT" /\ cur.level = "Error"
    /\ ~cur.gateActive /\ ~cur.exprVal /\ cur.outcome = "returned"

C3_ErrorReportsThenThrowsReportedMessage ==
    [][ (CheckStep /\ executor = "Default" /\ active["Error"]
           /\ cur'.level = "Error" /\ ~cur'.exprVal)
          => /\ cur'.outcome = "threw" /\ pc' = "idle"
             /\ Len(cur'.reports) = 1
             /\ cur'.reports[1].tag = "[ERROR]"
             /\ cur'.exc.type = "CAssertException"
             /\ cur'.exc.msg = cur'.reports[1].message
             /\ \E t \in Templates, a \in Args : cur'.exc.msg = Format(t, a)
             /\ Before(cur'.events, "report", "rethrow") ]_vars

\* The caller caught "bad value 7" from a failing Error check.
C3_Witness ==
    /\ cur.level = "Error" /\ cur.fired /\ cur.outcome = "threw"
    /\ cur.calls = << [executor |-> "Default", op |-> "HandleError"] >>
    /\ cur.exc.msg = <<"bad value ", "7">>

\* C4: an exception thrown by the executor's Warning, Error or Fatal
\* operation reaches the caller unmodified: same dynamic type, same payload.
C4_ExecutorExceptionReachesCallerUnmodified ==
    (cur.impl = "IMPL_DBGH_ASSERT" /\ cur.thrown # NoExc)
      => (cur.outcome = "threw" /\ cur.exc = cur.thrown)

\* C5: once a failing Debug check at a site is resolved with ignore forever,
\* that check continues silently, the latch of the site is set and stays set,
\* and every later check at the site is a no-op whatever its expression.
C5_IgnoreForeverSilencesTheSite ==
    [][ /\ (cur' # cur /\ cur'.resolution = "Suppressed")
            => /\ ignore'[cur'.site]
               /\ cur'.outcome = "returned" /\ cur'.exc = NoExc
               /\ cur'.breakpoints = 0 /\ pc' = "idle"
        /\ \A s \in Sites : ignore[s] => ignore'[s]
        /\ (CheckStep /\ cur'.impl = "IMPL_DBGH_ASSERT_DEBUG" /\ ignore[cur'.site])
            => /\ IsNoOp(cur')
               /\ pc' = "idle"
               /\ UNCHANGED <<active, executor, ignore>> ]_vars

\* A failing check ran at silenced site dA while Debug was enabled.
C5_Witness ==
    /\ cur.site = "dA" /\ cur.latchBefore /\ cur.gateActive /\ ~cur.exprVal
    /\ cur.outcome = "returned"

\* C6: resolving a failure at one site changes no latch but that site's, and
\* a failing check at a site whose latch is false, with Debug enabled, invokes
\* the interactive operation whatever the latches of the other sites.
C6_LatchesAreIndependent ==
    [][ /\ \A s \in Sites : (ignore'[s] # ignore[s]) => cur'.site = s
        /\ (CheckStep /\ cur'.impl = "IMPL_DBGH_ASSERT_DEBUG" /\ active["Debug"]
              /\ ~ignore[cur'.site] /\ ~cur'.exprVal)
            => /\ cur'.calls = << [executor |-> executor, op |-> "HandleInteractive"] >>
               /\ executor = "Default" => (pc' = "prompting" /\ cur'.prompts = 1) ]_vars

\* Site dA is silenced and the twin site dB shows its menu.
C6_Witness ==
    /\ ignore["dA"] /\ ~ignore["dB"]
    /\ cur.site = "dB" /\ pc = "prompting"

\* C7: every latch starts false; a latch that is true stays true; a latch
\* becomes true only in a step that resolves a failing check at its own site
\* with ignore forever.
C7_LatchMonotone ==
    /\ \A s \in Sites : ~ignore[s]
    /\ [][ \A s \in Sites :
             /\ ignore[s] => ignore'[s]
             /\ (~ignore[s] /\ ignore'[s])
                 => /\ cur'.site = s /\ cur'.resolution = "Suppressed"
                    /\ cur'.fired /\ ~cur'.exprVal ]_vars

\* The latch of dB was set by command F (or f).
C7_Witness ==
    /\ ignore["dB"] /\ cur.site = "dB" /\ cur.resolution = "Suppressed"
    /\ cur.calls = << [executor |-> "Default", op |-> "HandleInteractive"] >>

\* What the commands I, F, T and B read by the menu do in the caller.
C8_IgnoreThrowTerminate ==
    LET ch == ToUpper(stdin) IN
    /\ ch = "I" => /\ cur'.outcome = "returned" /\ cur'.exc = NoExc
                   /\ cur'.breakpoints = 0 /\ cur'.reports = cur.reports
                   /\ ignore' = ignore /\ pc' = "idle"
    /\ ch = "F" => /\ cur'.outcome = "returned" /\ cur'.exc = NoExc
                   /\ cur'.breakpoints = 0 /\ cur'.reports = cur.reports
                   /\ ignore' = [ignore EXCEPT ![cur.site] = TRUE] /\ pc' = "idle"
    /\ ch = "T" => /\ cur'.outcome = "threw"
                   /\ cur'.exc = [type |-> "CAssertException", msg |-> cur.message,
                                  extra |-> "none"]
                   /\ cur.message # NoMessage
                   /\ cur'.breakpoints = 0 /\ ignore' = ignore /\ pc' = "idle"
    /\ ch = "B" => /\ cur'.outcome = "terminated" /\ pc' = "terminated"
                   /\ cur'.exc = NoExc /\ cur'.breakpoints = 0

\* C8, as claimed: ... and D executes the breakpoint instruction once and
\* then falls through to the statement after the check.
C8_CommandDecidesOutcome_AsClaimed ==
    [][ pc = "prompting" =>
          /\ C8_IgnoreThrowTerminate
          /\ ToUpper(stdin) = "D" => /\ cur'.breakpoints = 1
                                     /\ cur'.outcome = "returned" /\ pc' = "idle" ]_vars

\* C8, amended: ... and D executes the breakpoint instruction once, raises
\* nothing and leaves the latch alone; the check then falls through if a
\* debugger is attached, and otherwise falls through or the process dies.
C8_CommandDecidesOutcome ==
    [][ pc = "prompting" =>
          /\ C8_IgnoreThrowTerminate
          /\ ToUpper(stdin) = "D"
              => /\ cur'.breakpoints = 1 /\ cur'.exc = NoExc /\ ignore' = ignore
                 /\ Before(cur'.events, "catch", "trap")
                 /\ IF cur'.debugger = "attached"
                    THEN cur'.outcome = "returned" /\ pc' = "idle"
                    ELSE \/ cur'.outcome = "returned" /\ pc' = "idle"
                         \/ cur'.outcome = "terminated" /\ pc' = "terminated" ]_vars

\* Command D (or d) stopped in an attached debugger and the check returned.
C8_Witness ==
    /\ cur.resolution = "Break" /\ cur.debugger = "attached"
    /\ cur.calls = << [executor |-> "Default", op |-> "HandleInteractive"] >>
    /\ cur.breakpoints = 1 /\ cur.outcome = "returned"

\* C9, as claimed: on Break no exception is thrown or caught between the
\* decision and the breakpoint instruction.
C9_BreakWithoutException_AsClaimed ==
    cur.resolution = "Break"
      => /\ cur.thrown = NoExc /\ ~cur.caught
         /\ ~Has(cur.events, "throw") /\ ~Has(cur.events, "catch")

\* C9, amended: Break reaches the call site as a thrown
\* SStartDebuggingException, which is caught in the body of the macro, in the
\* caller's frame; the breakpoint instruction runs there, once, after the
\* catch; no exception reaches the caller and nothing is rethrown.
C9_BreakIsCaughtAtTheCallSite ==
    cur.resolution = "Break"
      => /\ cur.thrown.type = "SStartDebuggingException"
         /\ cur.caught /\ cur.exc = NoExc /\ cur.outcome # "threw"
         /\ cur.breakpoints = 1
         /\ Before(cur.events, "throw", "catch")
         /\ Before(cur.events, "catch", "trap")
         /\ ~Has(cur.events, "rethrow")

\* A Break at site dB ran the breakpoint instruction with no debugger.
C9_Witness ==
    /\ cur.resolution = "Break" /\ cur.site = "dB"
    /\ cur.caught /\ cur.breakpoints = 1 /\ cur.debugger = "absent"

\* C10: with the default executor and Fatal enabled, a failing ASSERT_FATAL
\* (outside -DDEBUG) reports and then terminates the process: the check does
\* not return or throw, and nothing runs after it.
C10_FatalReportsThenTerminates ==
    [][ /\ (CheckStep /\ ~debugBuild /\ executor = "Default" /\ active["Fatal"]
              /\ SiteMacro(cur'.site) = "ASSERT_FATAL" /\ ~cur'.exprVal)
            => /\ cur'.outcome = "terminated" /\ pc' = "terminated"
               /\ cur'.exc = NoExc
               /\ Len(cur'.reports) = 1 /\ cur'.reports[1].tag = "[FATAL]"
               /\ Before(cur'.events, "report", "terminate")
        /\ pc # "terminated" ]_vars

\* A failing Fatal check terminated the process.
C10_Witness ==
    /\ pc = "terminated" /\ cur.level = "Fatal" /\ cur.fired
    /\ cur.calls = << [executor |-> "Default", op |-> "HandleFatal"] >>

\* C11: replacing the executor takes effect from the next check on.  Every
\* check that fires invokes exactly the matching operation of the executor
\* the registry holds at that moment, never one installed earlier, and a check
\* does not change the installed executor; a step that replaces the executor
\* changes nothing else, so the record and outcome of the checks already
\* resolved, the levels and the latches stay as they were; the executor is
\* not replaced while a check waits at its prompt.
C11_ReplacedExecutorServesLaterChecks ==
    [][ /\ (CheckStep /\ cur'.fired)
            => /\ cur'.calls = << [executor |-> executor,
                                   op |-> OperationOf(cur'.level)] >>
               /\ executor' = executor
        /\ (executor' # executor)
            => /\ pc = "idle"
               /\ UNCHANGED <<cur, pc, active, ignore, stdin>>
        /\ (pc = "prompting")
            => /\ executor' = executor
               /\ cur'.calls = cur.calls ]_vars

\* The registry starts with the default executor: here a replacement was
\* installed and a failing Error check ran on it.
C11_Witness ==
    /\ executor = "Spy" /\ cur.fired /\ cur.level = "Error"
    /\ cur.calls = << [executor |-> "Spy", op |-> "HandleError"] >>
    /\ cur.outcome = "threw"

C14_FatalDisabledByDefault ==
    /\ (active["Warning"] /\ active["Error"] /\ ~active["Fatal"]
          /\ executor = "Default")
    /\ [][ /\ (CheckStep /\ ~debugBuild /\ ~active["Fatal"]
                 /\ SiteMacro(cur'.site) = "ASSERT_FATAL")
               => /\ IsNoOp(cur') /\ pc' = "idle"
                  /\ UNCHANGED <<active, executor, ignore>>
           /\ (CheckStep /\ ~debugBuild /\ ~cur'.exprVal
                 /\ SiteMacro(cur'.site) \in {"ASSERT_WARNING", "ASSERT_ERROR"}
                 /\ active[cur'.level])
               => /\ cur'.fired
                  /\ cur'.calls = << [executor |-> executor,
                                      op |-> OperationOf(cur'.level)] >>
           /\ (~active["Fatal"] /\ active'["Fatal"])
               => /\ pc = "idle" /\ pc' = "idle" /\ cur' = cur
           /\ (pc # "terminated" /\ pc' = "terminated" /\ cur'.level = "Fatal")
               => active["Fatal"] ]_vars

\* Nothing has enabled Fatal and the other levels are as at the start: a
\* failing ASSERT_FATAL check of a release build has just done nothing.
C14_Witness ==
    /\ ~debugBuild /\ ~active["Fatal"] /\ active["Warning"] /\ active["Error"]
    /\ cur.site = "f" /\ cur.level = "Fatal" /\ ~cur.exprVal
    /\ IsNoOp(cur) /\ pc = "idle"

\* The ten characters the menu accepts: the five commands in either case.
C15_AcceptedInputs == {"I", "i", "F", "f", "D", "d", "T", "t", "B", "b"}

\* C15: while a check waits at the menu of the default executor, any input
\* other than I, F, D, T, B in either case, a failed read included, only
\* shows the menu again: the check stays at the prompt unresolved, the latches,
\* the levels and the executor are unchanged, nothing is thrown, no breakpoint
\* is raised, the process is not terminated, and nothing is reported or
\* called.  A check at the prompt is resolved only by one of the ten accepted
\* characters.
C15_InvalidInputOnlyReprompts ==
    [][ /\ (pc = "prompting" /\ stdin \notin C15_AcceptedInputs)
            => /\ pc' = "prompting"
               /\ UNCHANGED <<ignore, active, executor>>
               /\ cur' = [cur EXCEPT !.prompts = cur.prompts + 1,
                                     !.events = cur.events \o <<"prompt">>]
               /\ cur'.resolution = "none" /\ cur'.outcome = "pending"
               /\ cur'.thrown = NoExc /\ cur'.exc = NoExc
               /\ cur'.breakpoints = 0
        /\ (pc = "prompting" /\ cur'.resolution # "none")
            => stdin \in C15_AcceptedInputs ]_vars

\* The menu was shown again after an input it does not accept; the check is
\* still waiting, unresolved, and the site's latch is still clear.
C15_Witness ==
    /\ pc = "prompting" /\ cur.prompts > 1
    /\ cur.resolution = "none" /\ cur.outcome = "pending"
    /\ ~ignore[IgnoreRef(cur.site)]

\* C16: in a build with the DEBUG switch, a check written with
\* ASSERT_WARNING, ASSERT_ERROR or ASSERT_FATAL is a Debug check: it is gated
\* by the Debug level and not by the level in its name, its body runs exactly
\* when its own site's latch is clear, Debug is enabled and the expression is
\* false, it then invokes the interactive operation and no other, and from
\* entry to resolution it changes no latch but that of its own site, which
\* it sets when it resolves to ignore-forever.
C16_DebugSwitchMakesEveryCheckInteractive ==
    [][ /\ (CheckStep /\ debugBuild /\ SiteMacro(cur'.site) # "ASSERT_DEBUG")
            => /\ cur'.impl = "IMPL_DBGH_ASSERT_DEBUG" /\ cur'.level = "Debug"
               /\ cur'.fired <=> (~ignore[cur'.site] /\ active["Debug"]
                                    /\ ~cur'.exprVal)
               /\ cur'.fired
                    => cur'.calls = << [executor |-> executor,
                                        op |-> "HandleInteractive"] >>
               /\ \A s \in Sites \ {cur'.site} : ignore'[s] = ignore[s]
        /\ (pc = "prompting" /\ debugBuild /\ SiteMacro(cur.site) # "ASSERT_DEBUG")
            => /\ \A s \in Sites \ {cur.site} : ignore'[s] = ignore[s]
               /\ ignore'[cur.site] <=> (ignore[cur.site]
                                           \/ cur'.resolution = "Suppressed") ]_vars

\* A DEBUG build in which Fatal is disabled and Debug enabled: a failing
\* ASSERT_FATAL check went to the interactive operation, was answered with
\* ignore-forever and set the latch of its own site only.
C16_Witness ==
    /\ debugBuild /\ ~active["Fatal"] /\ active["Debug"]
    /\ cur.site = "f" /\ cur.fired /\ cur.resolution = "Suppressed"
    /\ cur.calls[1].op = "HandleInteractive"
    /\ ignore["f"] /\ ~ignore["w"] /\ ~ignore["e"] /\ ~ignore["dA"]

\* C17: with the default executor installed, the caller of a check sees an
\* exception only from a failing check at the enabled Error level or from a
\* Debug check resolved with the throw command, and what it sees is the
\* assertion exception; a check that did not fire raises nothing; a release
\* build's ASSERT_WARNING or ASSERT_FATAL check never raises it; and a failing,
\* enabled ASSERT_WARNING check writes one [WARNING] report and returns
\* normally.
C17_OnlyErrorAndThrowCommandRaise ==
    /\ ~cur.fired => (cur.exc = NoExc /\ cur.outcome # "threw")
    /\ (cur.fired /\ cur.calls[1].executor = "Default")
         => /\ (cur.exc # NoExc \/ cur.outcome = "threw")
                 => /\ cur.outcome = "threw" /\ IsAssertException(cur.exc)
                    /\ \/ cur.level = "Error" /\ cur.gateActive /\ ~cur.exprVal
                       \/ cur.level = "Debug" /\ cur.resolution = "Escalate"
            /\ (~debugBuild /\ SiteMacro(cur.site) \in {"ASSERT_WARNING", "ASSERT_FATAL"})
                 => (cur.exc = NoExc /\ cur.thrown = NoExc /\ cur.outcome # "threw")
            /\ (~debugBuild /\ SiteMacro(cur.site) = "ASSERT_WARNING")
                 => /\ cur.outcome = "returned"
                    /\ Len(cur.reports) = 1 /\ cur.reports[1].tag = "[WARNING]"

\* A failing Warning check on the default executor reported and returned
\* without an exception.
C17_Witness ==
    /\ ~debugBuild /\ cur.site = "w" /\ cur.level = "Warning" /\ cur.fired
    /\ cur.calls[1].executor = "Default"
    /\ cur.outcome = "returned" /\ cur.exc = NoExc /\ Len(cur.reports) = 1

\* C18 as claimed: a Debug check consults the level, then evaluates the
\* expression, then consults the latch, so that the latch is consulted only
\* when the level is active and the expression has evaluated to false.
C18_GateThenExpressionThenLatch_AsClaimed ==
    (cur.impl = "IMPL_DBGH_ASSERT_DEBUG" /\ Has(cur.events, "latch"))
      => /\ cur.gateActive /\ cur.evaluated /\ ~cur.exprVal
         /\ Before(cur.events, "gate", "latch")
         /\ Before(cur.events, "expr", "latch")

\* C18: a Debug check consults its site's latch first, on every execution,
\* then the level, then the expression: the level is consulted only if the
\* latch is clear, the expression is evaluated only if the latch is clear and
\* the level is active, and a check that finds the latch set is a no-op that
\* consults and evaluates nothing else.
C18_LatchThenGateThenExpression ==
    (cur.impl = "IMPL_DBGH_ASSERT_DEBUG")
      => /\ Len(cur.events) >= 1 /\ cur.events[1] = "latch"
         /\ Has(cur.events, "gate") <=> ~cur.latchBefore
         /\ Has(cur.events, "expr") <=> (~cur.latchBefore /\ cur.gateActive)
         /\ cur.evaluated <=> Has(cur.events, "expr")
         /\ Has(cur.events, "gate") => cur.events[2] = "gate"
         /\ Has(cur.events, "expr") => cur.events[3] = "expr"
         /\ cur.latchBefore => (cur.events = <<"latch">> /\ IsNoOp(cur))
         /\ cur.fired <=> (~cur.latchBefore /\ cur.gateActive /\ ~cur.exprVal)

\* A check at a silenced site whose level is active and whose expression is
\* false: only the latch was consulted.
C18_Witness ==
    /\ cur.impl = "IMPL_DBGH_ASSERT_DEBUG" /\ cur.latchBefore
    /\ cur.gateActive /\ ~cur.exprVal
    /\ cur.events = <<"latch">> /\ ~cur.evaluated

\* The menu's read returns once a token is on std::cin: while the check waits
\* with a token to read, ReadCommand stays enabled and is eventually taken.
SpecFair == Spec /\ WF_vars(ReadCommand)

\* C19: a failing Debug check that has entered the menu stays blocked, its
\* outcome pending, until one of the commands I, F, D, T, B (either case) is
\* read.  Once such a command is on the input the check eventually completes:
\* it returns, raises or terminates the process.  Input that is not a command,
\* or a failed read, never completes it: the check is still at the prompt
\* afterwards, and nothing but an accepted command ends the wait.
C19_BlocksUntilValidCommand ==
    /\ (pc = "prompting" /\ stdin \in C15_AcceptedInputs)
         ~> (pc # "prompting" /\ cur.outcome \in {"returned", "threw", "terminated"})
    /\ [](pc = "prompting" => (cur.outcome = "pending" /\ cur.resolution = "none"))
    /\ [][ /\ (pc = "prompting" /\ stdin \notin C15_AcceptedInputs)
               => (pc' = "prompting" /\ cur'.outcome = "pending")
           /\ (pc = "prompting" /\ pc' # "prompting")
               => /\ stdin \in C15_AcceptedInputs
                  /\ cur'.resolution \in Resolutions ]_vars

\* The check was sent back to the menu by input that is no command and now
\* waits on a failed read.
C19_Witness ==
    /\ pc = "prompting" /\ cur.prompts > 1 /\ stdin = ""
    /\ cur.outcome = "pending"

\* C20: the latches are not part of the registry.  A step that changes the
\* enabled levels or the installed executor leaves every latch as it was; a
\* latch changes only in the step that resolves a check to ignore-forever,
\* which changes neither the levels nor the executor; and a check at a
\* silenced site is a no-op that leaves the latches alone, whatever the
\* levels and the executor have become in between.
C20_RegistryOperationsLeaveLatches ==
    [][ /\ (active' # active \/ executor' # executor) => ignore' = ignore
        /\ (ignore' # ignore)
            => /\ cur'.resolution = "Suppressed"
               /\ ignore' = [ignore EXCEPT ![cur'.site] = TRUE]
               /\ UNCHANGED <<active, executor>>
        /\ (CheckStep /\ cur'.impl = "IMPL_DBGH_ASSERT_DEBUG" /\ ignore[cur'.site])
            => /\ IsNoOp(cur') /\ pc' = "idle"
               /\ ignore' = ignore ]_vars

\* Site dA was silenced; a failing check there, run while Debug was enabled
\* and a replacement executor installed, did nothing; Debug has been disabled
\* since and the latch is still set.
C20_Witness ==
    /\ ignore["dA"] /\ ~ignore["dB"]
    /\ cur.site = "dA" /\ cur.latchBefore /\ cur.gateActive /\ ~cur.exprVal
    /\ IsNoOp(cur)
    /\ executor = "Spy" /\ ~active["Debug"]

=============================================================================
